---- MODULE Spec2Model ----
(***************************************************************************)
(* State-machine model of the FMS/TMS status reconciliation functions of   *)
(* this repository.  The repository holds six drafts of the same           *)
(* serverless function; each is a value of the variable `variant`:         *)
(*   "status"  src/api/check-status.js      (PRO, sequential loop)         *)
(*   "pro"     src/api/check-status-pro.js  (PRO, batched trace, stubs)    *)
(*   "pu"      src/api/check-status-pu.js   (PU, Order-System only)        *)
(*   "puA"     src/unnamed/part_000:1-538   (PU, batched trace)            *)
(*   "puB"     src/unnamed/part_000:540-859 (PU, batched trace, unchecked) *)
(*   "puC"     src/unnamed/part_001         (PU search, PRO trace)         *)
(* Strings whose format the code inspects are sequences of one-character   *)
(* strings; JavaScript null/undefined string values are the empty          *)
(* sequence where the code only tests them for truthiness.                 *)
(***************************************************************************)
EXTENDS Integers, Sequences, FiniteSets, TLC

VARIABLES
    variant,    \* which draft of the function is deployed
    fmsCred,    \* FMS_USER and FMS_PASS are both set in the environment
    tmsCred,    \* TMS_USER and TMS_PASS are both set in the environment
    FMS_TOKEN,  \* module-level token cache
    force,      \* the argument of authFms
    pros,       \* the identifier list the handler passes to checkAll
    pc,         \* position of checkAll
    fmsToken,   \* checkAll's local: the token authFms returned
    fmsMap,     \* checkAll's local: identifier -> order reference
    proOf,      \* part_001 only: identifier -> PRO of the search row
    tmsAuth,    \* checkAll's local: Trace-System session or NoAuth
    tmsMap,     \* checkAll's local: trace map or NoMap
    limit,      \* runWithConcurrency's limit argument
    groupSent,  \* the user id and token the group-switch call was sent with
    index,      \* runWithConcurrency's shared index (1-based here)
    run,        \* the runners of runWithConcurrency / the loop of check-status.js
    results,    \* the result list being filled
    sub,        \* history: the outcomes of each identifier's two detail sub-calls
    calls,      \* history: outbound calls issued by this invocation, per endpoint
    thrownBy,   \* history: which step made checkAll throw
    fails,      \* history: the failed responses each backend has given so far
    other,      \* a second checkAll invocation running in the same process
    input       \* the rows the search and trace responses are given, where that is fixed

vars == <<variant, force, other, input, groupSent, fmsCred, tmsCred, FMS_TOKEN, pros, pc, fmsToken, fmsMap,
          proOf, tmsAuth, tmsMap, limit, index, run, results, sub, calls, thrownBy, fails>>

----------------------------------------------------------------------------
(* Bounds of the model *)

MaxN == 2          \* longest identifier batch
MaxRows == 2       \* most rows in a search or trace response
MaxLimit == 2      \* largest limit tried besides the program's own

(* Program constants *)

CONCURRENCY == 5   \* runWithConcurrency limit passed by checkAll

----------------------------------------------------------------------------
(* Strings *)

Digit == {"0", "1", "2", "3", "4", "5", "6", "7", "8", "9"}

IsDigits(s) == \A i \in 1..Len(s) : s[i] \in Digit

RECURSIVE TrimLeft(_)
TrimLeft(s) == IF s # <<>> /\ Head(s) = " " THEN TrimLeft(Tail(s)) ELSE s

RECURSIVE TrimRight(_)
TrimRight(s) ==
    IF s # <<>> /\ s[Len(s)] = " " THEN TrimRight(SubSeq(s, 1, Len(s) - 1)) ELSE s

\* String(v ?? "").trim()
clean(s) == TrimRight(TrimLeft(s))

\* /^\d{6,14}$/
ReIdent(s) == Len(s) >= 6 /\ Len(s) <= 14 /\ IsDigits(s)

\* /^DO\d{6,}$/
ReOrder(s) ==
    /\ Len(s) >= 8
    /\ s[1] = "D"
    /\ s[2] = "O"
    /\ IsDigits(SubSeq(s, 3, Len(s)))

NoStr == <<>>

PRO1 == <<"1", "0", "0", "2", "0", "0">>
PU1 == <<"P", "U", "7">>
CTOR == <<"c", "o", "n", "s", "t", "r", "u", "c", "t", "o", "r">>
PadPRO1 == <<" ">> \o PRO1 \o <<" ">>

DO_A == <<"D", "O", "0", "0", "0", "0", "0", "1">>
DO_SHORT == <<"D", "O", "1", "2", "3">>

\* What a lookup of an Object.prototype member name in a plain object yields:
\* the inherited function, a truthy value that is no string.
INHERITED == <<"function Object() { [native code] }">>

ProtoKeys == {CTOR}

Ids == {PRO1, PU1, CTOR}

Variants == {"status", "pro", "pu", "puA", "puB", "puC"}

PuMode(v) == v \in {"pu", "puA", "puB", "puC"}

\* All lists of distinct identifiers of length 1..MaxN: what the handler's
\* trim / de-duplicate / cap step hands to checkAll.
Batches ==
    {b \in UNION {[1..n -> Ids] : n \in 1..MaxN} :
        \A i, j \in 1..Len(b) : i # j => b[i] # b[j]}

----------------------------------------------------------------------------
(* Plain objects used as maps: obj[key] reads own properties first, then    *)
(* the prototype chain.                                                     *)

ObjGet(map, key) ==
    IF key \in DOMAIN map THEN map[key]
    ELSE IF key \in ProtoKeys THEN INHERITED
    ELSE NoStr

EmptyMap == [k \in {} |-> NoStr]

MapSet(map, key, val) == [k \in DOMAIN map \cup {key} |-> IF k = key THEN val ELSE map[k]]

----------------------------------------------------------------------------
(* Responses of the upstream systems *)

NetFail == [net |-> TRUE]

Http(ok, body) == [net |-> FALSE, ok |-> ok, body |-> body]

NoToken == "null"
EmptyToken == ""
Tokens == {"tokA"}
OldToken == "tokOld"   \* a token cached by an earlier invocation

Truthy(tok) == tok # NoToken /\ tok # EmptyToken

\* Login bodies: unparsable, or an object with the token at one place or nowhere.
LoginBodies ==
    {[kind |-> "bad"], [kind |-> "obj", at |-> "none"]}
    \cup {[kind |-> "obj", at |-> a, token |-> t] : a \in {"top", "data", "result"}, t \in Tokens}

LoginResponses == {NetFail} \cup {Http(ok, b) : ok \in BOOLEAN, b \in LoginBodies}

NullRow == [null |-> TRUE]

SearchRowIds == {PRO1, PU1, PadPRO1}
SearchRowOrders == {DO_A, DO_SHORT}

\* id: the identifier-bearing field the draft reads; order: order_no;
\* pro: tracking_no, read besides the PU by part_001 only.  A field that is
\* missing reads as the empty string.
SearchRows(v) ==
    {NullRow,
     [null |-> FALSE, id |-> NoStr, order |-> DO_A, pro |-> NoStr],
     [null |-> FALSE, id |-> PRO1, order |-> NoStr, pro |-> NoStr]}
    \cup {[null |-> FALSE, id |-> i, order |-> o, pro |-> NoStr] :
            i \in SearchRowIds, o \in SearchRowOrders}
    \cup (IF v = "puC"
          THEN {[null |-> FALSE, id |-> PRO1, order |-> o, pro |-> PRO1] : o \in SearchRowOrders}
          ELSE {})

RowLists(S) == UNION {[1..n -> S] : n \in 0..MaxRows}

SearchBodies(v) ==
    {[kind |-> "bad"], [kind |-> "none"]}
    \cup {[kind |-> k, items |-> rows] : k \in {"top", "data"}, rows \in RowLists(SearchRows(v))}

SearchResponses(v) ==
    {NetFail}
    \cup {Http(TRUE, b) : b \in SearchBodies(v)}
    \cup {Http(FALSE, b) : b \in {[kind |-> "none"],
                                 [kind |-> "top", items |-> <<[null |-> FALSE, id |-> PRO1,
                                                               order |-> DO_A, pro |-> NoStr]>>]}}

----------------------------------------------------------------------------
(* Order-System helpers *)

\* How a response failed: transport, non-2xx status, or a login response
\* that carries no token at any of the places a token may be
LoginFailure(resp) ==
    IF resp.net THEN "login:net"
    ELSE IF ~resp.ok THEN "login:http"
    ELSE IF resp.body.kind = "bad" \/ resp.body.at = "none" THEN "login:notoken"
    ELSE "none"

SearchFailure(resp) ==
    IF resp.net THEN "search:net"
    ELSE IF ~resp.ok THEN "search:http"
    ELSE "none"

Failed(f, side, tag) == IF tag = "none" THEN f ELSE [f EXCEPT ![side] = @ \cup {tag}]

\* authFms after the login response: [throws, cache, token]
AuthFmsResult(v, resp, cache) ==
    IF resp.net THEN [throws |-> TRUE, cache |-> cache]
    ELSE IF v # "pro" /\ ~resp.ok THEN [throws |-> TRUE, cache |-> cache]
    ELSE IF resp.body.kind = "bad" THEN
        IF v = "pro" THEN [throws |-> TRUE, cache |-> cache]
        ELSE [throws |-> TRUE, cache |-> EmptyToken]
    ELSE LET tok == IF resp.body.at = "none" THEN EmptyToken
                    ELSE IF resp.body.at = "result" /\ v = "pro" THEN EmptyToken
                    ELSE resp.body.token
         IN  IF v # "pro" /\ ~Truthy(tok) THEN [throws |-> TRUE, cache |-> tok]
             ELSE [throws |-> FALSE, cache |-> tok, token |-> tok]

\* The identifier a draft reads from a search row, and whether it keeps the row.
RowKey(row) == clean(row.id)
RowOrder(row) == clean(row.order)

RowAccepted(v, row) ==
    CASE v \in {"status", "puB"} -> ReIdent(RowKey(row)) /\ ReOrder(RowOrder(row))
      [] v \in {"pu", "puA"}     -> RowKey(row) # NoStr /\ ReOrder(RowOrder(row))
      [] OTHER                   -> RowKey(row) # NoStr /\ RowOrder(row) # NoStr

RECURSIVE BuildMap(_, _, _)
BuildMap(v, rows, map) ==
    IF rows = <<>> THEN map
    ELSE BuildMap(v, Tail(rows),
                  IF RowAccepted(v, Head(rows))
                  THEN MapSet(map, RowKey(Head(rows)), RowOrder(Head(rows)))
                  ELSE map)

RECURSIVE BuildProOf(_, _)
BuildProOf(rows, map) ==
    IF rows = <<>> THEN map
    ELSE BuildProOf(Tail(rows),
                    IF RowAccepted("puC", Head(rows))
                    THEN MapSet(map, RowKey(Head(rows)), clean(Head(rows).pro))
                    ELSE map)

BodyItems(body) == IF body.kind \in {"top", "data"} THEN body.items ELSE <<>>

\* fmsSearchOrders followed by buildFmsMap: does the pair throw
SearchThrows(v, resp) ==
    \/ resp.net
    \/ v # "pro" /\ ~resp.ok
    \/ resp.body.kind = "bad"
    \/ \E i \in 1..Len(BodyItems(resp.body)) : BodyItems(resp.body)[i].null

buildFmsMap(v, resp) == BuildMap(v, BodyItems(resp.body), EmptyMap)

----------------------------------------------------------------------------
(* Trace-System responses and helpers *)

TmsLoginFailure(resp) ==
    IF resp.net THEN "login:net"
    ELSE IF ~resp.ok THEN "login:http"
    ELSE IF resp.body.kind = "bad" \/ resp.body.uid = "null" \/ resp.body.token = "null"
         THEN "login:nosession"
    ELSE "none"

GroupFailure(resp) ==
    IF resp.net THEN "group:net" ELSE IF ~resp.ok THEN "group:http" ELSE "none"

TraceFailure(resp) ==
    IF resp.net THEN "trace:net" ELSE IF ~resp.ok THEN "trace:http" ELSE "none"

NoAuth == [set |-> FALSE]
NoMap == [set |-> FALSE]
NoGroup == [sent |-> FALSE]

Sessions == {"sessA"}

TmsLoginBodies ==
    {[kind |-> "bad"]}
    \cup {[kind |-> "obj", uid |-> "u1", token |-> t] : t \in {"null"} \cup Sessions}
    \cup {[kind |-> "obj", uid |-> "null", token |-> t] : t \in Sessions}

TmsLoginResponses == {NetFail} \cup {Http(ok, b) : ok \in BOOLEAN, b \in TmsLoginBodies}

GroupResponses == {NetFail, Http(TRUE, [kind |-> "none"]), Http(FALSE, [kind |-> "none"])}

TraceRowKeys == {PRO1, PadPRO1, NoStr}

TraceRows ==
    {NullRow} \cup
    {[null |-> FALSE, key |-> k, tms_order_id |-> o] : k \in TraceRowKeys, o \in {"A"}}

TraceBodies ==
    {[kind |-> "bad"], [kind |-> "none"]}
    \cup {[kind |-> k, rows |-> rows] : k \in {"array", "data"}, rows \in RowLists(TraceRows)}
    \cup {[kind |-> k, rows |-> rows] :
            k \in {"rows", "result"},
            rows \in {<<>>, <<[null |-> FALSE, key |-> PRO1, tms_order_id |-> "A"]>>}}

TraceResponses ==
    {NetFail}
    \cup {Http(TRUE, b) : b \in TraceBodies}
    \cup {Http(FALSE, b) : b \in {[kind |-> "none"],
                                 [kind |-> "data", rows |-> <<[null |-> FALSE, key |-> PRO1,
                                                              tms_order_id |-> "A"]>>]}}

\* authTms up to the point where it calls tmsChangeGroup:
\* [throws] or [throws |-> FALSE, userId, token]
AuthTmsLogin(v, resp) ==
    IF resp.net THEN [throws |-> TRUE]
    ELSE IF v # "puB" /\ ~resp.ok THEN [throws |-> TRUE]
    ELSE IF resp.body.kind = "bad" THEN [throws |-> TRUE]
    ELSE IF v # "puB" /\ (resp.body.uid = "null" \/ resp.body.token = "null")
         THEN [throws |-> TRUE]
    ELSE [throws |-> FALSE, userId |-> resp.body.uid, token |-> resp.body.token]

\* tmsChangeGroup: only a rejected fetch propagates
ChangeGroupThrows(v, resp) == resp.net

\* The row array a draft finds in a trace body: [iterable, rows]
TraceRowsOf(v, body) ==
    CASE body.kind \in {"bad", "none"} ->
            [iterable |-> v # "puB", rows |-> <<>>]
      [] body.kind \in {"rows", "result"} /\ v = "pro" ->
            [iterable |-> TRUE, rows |-> <<>>]
      [] OTHER ->
            [iterable |-> TRUE, rows |-> body.rows]

RECURSIVE BuildTraceMap(_, _)
BuildTraceMap(rows, map) ==
    IF rows = <<>> THEN map
    ELSE BuildTraceMap(Tail(rows),
                       IF clean(Head(rows).key) # NoStr
                       THEN MapSet(map, clean(Head(rows).key), Head(rows).tms_order_id)
                       ELSE map)

HasNullRow(rows) == \E i \in 1..Len(rows) : rows[i].null

\* The batched trace query (tmsTraceForPus / tmsTraceForPu / tmsTraceForPros)
TraceThrows(v, resp) ==
    \/ resp.net
    \/ v \in {"puA", "puC"} /\ ~resp.ok
    \/ v = "pro" /\ resp.body.kind = "bad"
    \/ ~TraceRowsOf(v, resp.body).iterable
    \/ HasNullRow(TraceRowsOf(v, resp.body).rows)

TraceMapOf(v, resp) == BuildTraceMap(TraceRowsOf(v, resp.body).rows, EmptyMap)

\* A 2xx trace response whose body has no rows: an empty array at the top
\* level or under data, rows or result, or an object with none of them
ZeroRows(resp) ==
    /\ ~resp.net
    /\ resp.ok
    /\ \/ resp.body.kind = "none"
       \/ resp.body.kind \in {"array", "data", "rows", "result"} /\ resp.body.rows = <<>>

\* tmsMap after  try { tmsMap = await tmsTraceFor...(tmsAuth, ids) } catch {}
tmsTrace(v, resp) ==
    [m |-> IF TraceThrows(v, resp) THEN NoMap
           ELSE [set |-> TRUE, map |-> TraceMapOf(v, resp)],
     fail |-> TraceFailure(resp)]

----------------------------------------------------------------------------
(* Detail fetch and the per-identifier record *)

Merge(r, t) == [k \in DOMAIN r \cup DOMAIN t |-> IF k \in DOMAIN t THEN t[k] ELSE r[k]]

\* A flag of a JavaScript object is set when the property exists and is true.
Flag(r, f) == f \in DOMAIN r /\ r[f] = TRUE

NoOut == [k |-> "none", v |-> "null"]

\* Outcome of one detail sub-call: success (the field present or absent in the
\* body), rejected fetch (TypeError), or bad status / unparsable body.
DetailOutcomes ==
    {[k |-> "ok", v |-> "val"], [k |-> "net", v |-> "null"], [k |-> "err", v |-> "null"]}

\* A location that is set whether or not the location call succeeded
LocOf_Stale(b) == "LOC"

LocOf(b) == IF b.k = "ok" /\ b.v = "val" THEN "LOC" ELSE "null"
StatusOf(h) == IF h.k = "ok" /\ h.v = "val" THEN "ST" ELSE "null"
SubStatusOf(h) == IF h.k = "ok" /\ h.v = "val" THEN "SUB" ELSE "null"

\* Does this draft's fetchFmsDetails issue the two GET calls
DetailCalls(v) == v # "pro"

\* fetchFmsDetails with the two classification tests in the opposite order
fetchFmsDetails_GeneralFirst(v, b, h) ==
    LET basicOk == b.k = "ok"
        headOk == h.k = "ok"
        networkError == b.k = "net" \/ h.k = "net"
        generalError == b.k = "err" \/ h.k = "err"
    IN  IF ~basicOk /\ ~headOk /\ generalError THEN
            [ok |-> FALSE, loc |-> "null", status |-> "null", substatus |-> "null",
             basicOk |-> basicOk, headOk |-> headOk,
             networkError |-> FALSE, generalError |-> TRUE, partial |-> FALSE]
        ELSE IF networkError THEN
            [ok |-> FALSE, loc |-> "null", status |-> "null", substatus |-> "null",
             basicOk |-> basicOk, headOk |-> headOk,
             networkError |-> TRUE, generalError |-> FALSE, partial |-> FALSE]
        ELSE
            [ok |-> basicOk \/ headOk, loc |-> LocOf(b), status |-> StatusOf(h),
             substatus |-> SubStatusOf(h), basicOk |-> basicOk, headOk |-> headOk,
             partial |-> (basicOk # headOk),
             networkError |-> FALSE, generalError |-> FALSE]

\* fetchFmsDetails whose connectivity-failure record keeps the fields it fetched
fetchFmsDetails_KeepsFields(v, b, h) ==
    LET basicOk == b.k = "ok"
        headOk == h.k = "ok"
        networkError == b.k = "net" \/ h.k = "net"
        generalError == b.k = "err" \/ h.k = "err"
    IN  IF networkError THEN
            [ok |-> FALSE, loc |-> LocOf(b), status |-> StatusOf(h),
             substatus |-> SubStatusOf(h), basicOk |-> basicOk, headOk |-> headOk,
             networkError |-> TRUE, generalError |-> FALSE, partial |-> FALSE]
        ELSE IF ~basicOk /\ ~headOk /\ generalError THEN
            [ok |-> FALSE, loc |-> "null", status |-> "null", substatus |-> "null",
             basicOk |-> basicOk, headOk |-> headOk,
             networkError |-> FALSE, generalError |-> TRUE, partial |-> FALSE]
        ELSE
            [ok |-> basicOk \/ headOk, loc |-> LocOf(b), status |-> StatusOf(h),
             substatus |-> SubStatusOf(h), basicOk |-> basicOk, headOk |-> headOk,
             partial |-> (basicOk # headOk),
             networkError |-> FALSE, generalError |-> FALSE]

\* fetchFmsDetails that reports a general error as soon as one sub-call failed
fetchFmsDetails_EitherFailed(v, b, h) ==
    LET basicOk == b.k = "ok"
        headOk == h.k = "ok"
        networkError == b.k = "net" \/ h.k = "net"
        generalError == b.k = "err" \/ h.k = "err"
    IN  IF networkError THEN
            [ok |-> FALSE, loc |-> "null", status |-> "null", substatus |-> "null",
             basicOk |-> basicOk, headOk |-> headOk,
             networkError |-> TRUE, generalError |-> FALSE, partial |-> FALSE]
        ELSE IF (~basicOk \/ ~headOk) /\ generalError THEN
            [ok |-> FALSE, loc |-> "null", status |-> "null", substatus |-> "null",
             basicOk |-> basicOk, headOk |-> headOk,
             networkError |-> FALSE, generalError |-> TRUE, partial |-> FALSE]
        ELSE
            [ok |-> basicOk \/ headOk, loc |-> LocOf(b), status |-> StatusOf(h),
             substatus |-> SubStatusOf(h), basicOk |-> basicOk, headOk |-> headOk,
             partial |-> (basicOk # headOk),
             networkError |-> FALSE, generalError |-> FALSE]

\* fetchFmsDetails that calls a record partial as soon as one sub-call succeeded
fetchFmsDetails_PartialOr(v, b, h) ==
    LET basicOk == b.k = "ok"
        headOk == h.k = "ok"
        networkError == b.k = "net" \/ h.k = "net"
        generalError == b.k = "err" \/ h.k = "err"
    IN  IF networkError THEN
            [ok |-> FALSE, loc |-> "null", status |-> "null", substatus |-> "null",
             basicOk |-> basicOk, headOk |-> headOk,
             networkError |-> TRUE, generalError |-> FALSE, partial |-> FALSE]
        ELSE IF ~basicOk /\ ~headOk /\ generalError THEN
            [ok |-> FALSE, loc |-> "null", status |-> "null", substatus |-> "null",
             basicOk |-> basicOk, headOk |-> headOk,
             networkError |-> FALSE, generalError |-> TRUE, partial |-> FALSE]
        ELSE
            [ok |-> basicOk \/ headOk, loc |-> LocOf(b), status |-> StatusOf(h),
             substatus |-> SubStatusOf(h), basicOk |-> basicOk, headOk |-> headOk,
             partial |-> (basicOk \/ headOk),
             networkError |-> FALSE, generalError |-> FALSE]

fetchFmsDetails(v, b, h) ==
    IF v = "pro" THEN <<>>
    ELSE
    LET basicOk == b.k = "ok"
        headOk == h.k = "ok"
        networkError == b.k = "net" \/ h.k = "net"
        generalError == b.k = "err" \/ h.k = "err"
    IN  IF networkError THEN
            [ok |-> FALSE, loc |-> "null", status |-> "null", substatus |-> "null",
             basicOk |-> basicOk, headOk |-> headOk,
             networkError |-> TRUE, generalError |-> FALSE, partial |-> FALSE]
        ELSE IF ~basicOk /\ ~headOk /\ generalError THEN
            [ok |-> FALSE, loc |-> "null", status |-> "null", substatus |-> "null",
             basicOk |-> basicOk, headOk |-> headOk,
             networkError |-> FALSE, generalError |-> TRUE, partial |-> FALSE]
        ELSE
            [ok |-> basicOk \/ headOk, loc |-> LocOf(b), status |-> StatusOf(h),
             substatus |-> SubStatusOf(h), basicOk |-> basicOk, headOk |-> headOk,
             partial |-> (basicOk # headOk),
             networkError |-> FALSE, generalError |-> FALSE]

\* The order reference checkAll's worker finds for an identifier
LookupDO(v, map, id) ==
    IF v = "puC"
    THEN (IF clean(id) \in DOMAIN map THEN map[clean(id)] ELSE NoStr)
    ELSE ObjGet(map, id)

\* part_001: proFromFms
LookupPro(map, id) == IF clean(id) \in DOMAIN map THEN map[clean(id)] ELSE NoStr

\* The order-side record when no order reference was resolved
NoDoRecord(v) ==
    IF v = "pro"
    THEN [hasDO |-> FALSE, DO |-> NoStr, loc |-> "null", status |-> "null",
          substatus |-> "null"]
    ELSE [hasDO |-> FALSE, DO |-> NoStr, ok |-> FALSE, loc |-> "null", status |-> "null",
          substatus |-> "null", partial |-> FALSE, networkError |-> FALSE,
          generalError |-> FALSE]

\* fmsRes = await fetchFmsDetails(...); fmsRes.DO = DO; fmsRes.hasDO = true
FmsRes(v, DO, b, h) ==
    IF DO = NoStr THEN NoDoRecord(v)
    ELSE Merge(fetchFmsDetails(v, b, h), [DO |-> DO, hasDO |-> TRUE])

TmsInit(v) ==
    IF v = "pro"
    THEN [orderId |-> "null", loc |-> "null", status |-> "null", substatus |-> "null",
          notFound |-> FALSE]
    ELSE [attempted |-> FALSE, ok |-> FALSE, notFound |-> FALSE, orderId |-> "null",
          loc |-> "null", status |-> "null", substatus |-> "null",
          networkError |-> FALSE, generalError |-> FALSE]

\* The trace-side record the worker of a batched draft builds from tmsMap
TmsRes(v, auth, tmap, key, haveKey) ==
    IF auth.set /\ tmap.set /\ haveKey THEN
        IF key \in DOMAIN tmap.map
        THEN Merge(TmsInit(v),
                   IF v = "pro" THEN [orderId |-> tmap.map[key]]
                   ELSE [attempted |-> TRUE, ok |-> TRUE,
                         orderId |-> tmap.map[key]])
        ELSE Merge(TmsInit(v),
                   IF v = "pro" THEN [notFound |-> TRUE]
                   ELSE [attempted |-> TRUE, notFound |-> TRUE])
    ELSE IF v = "puC" THEN Merge(TmsInit(v), [attempted |-> TRUE, notFound |-> TRUE])
    ELSE TmsInit(v)

\* check-status.js: tmsTraceForPro and the try/catch around it
TmsResOne(resp, id) ==
    LET base == Merge(TmsInit("status"), [attempted |-> TRUE])
        rows == IF resp.net \/ resp.body.kind \in {"bad", "none"} THEN <<>>
                ELSE resp.body.rows
        hit == {i \in 1..Len(rows) : ~rows[i].null /\ clean(rows[i].key) = id}
        row == IF hit # {} THEN rows[CHOOSE i \in hit : \A j \in hit : i <= j] ELSE rows[1]
    IN  IF resp.net THEN Merge(base, [networkError |-> TRUE])
        ELSE IF ~resp.ok \/ resp.body.kind = "bad" THEN Merge(base, [generalError |-> TRUE])
        ELSE IF rows = <<>> THEN Merge(base, [notFound |-> TRUE])
        ELSE IF \E i \in 1..Len(rows) :
                    rows[i].null /\ \A j \in hit : i < j
             THEN Merge(base, [networkError |-> TRUE])
        ELSE Merge(base, [ok |-> TRUE, orderId |-> row.tms_order_id])

\* The trace-side record of check-status.js with the kind of response behind it
TraceOne(resp, id) ==
    [t |-> TmsResOne(resp, id),
     q |-> IF TraceFailure(resp) = "none" THEN "answered" ELSE TraceFailure(resp)]

\* The record a worker returns for identifier id
Record(v, id, fms, tms, pro) ==
    CASE v = "status" -> [pro |-> id, fms |-> fms, tms |-> tms]
      [] v = "pro"    -> [pro |-> id, fms |-> fms, tms |-> tms]
      [] v = "pu"     -> [pu |-> id, fms |-> fms]
      [] v = "puC"    -> [pu |-> clean(id), pro |-> pro, fms |-> fms, tms |-> tms]
      [] OTHER        -> [pu |-> id, fms |-> fms, tms |-> tms]

\* The identifier a record carries
IdOf(v, rec) == IF PuMode(v) THEN rec.pu ELSE rec.pro

----------------------------------------------------------------------------
(* State *)

EmptySlot == [empty |-> TRUE]

IsEmptySlot(x) == "empty" \in DOMAIN x

NoCalls == [login |-> 0, search |-> 0, tmsLogin |-> 0, group |-> 0, trace |-> 0,
            basic |-> 0, head |-> 0, with |-> {}]

Called(c, what) == [c EXCEPT ![what] = @ + 1]

\* An Order-System call that carries a token in its fms-token header
Sent(c, what, tok) == [c EXCEPT ![what] = @ + 1, !.with = @ \cup {tok}]

Min(a, b) == IF a <= b THEN a ELSE b

N == Len(pros)

\* The responses are not fixed in advance
NoInput == <<>>

\* The second invocation before the handler has called checkAll for it
Idle == [pc |-> "idle", token |-> NoToken]

Init ==
    /\ variant \in Variants
    /\ fmsCred \in BOOLEAN
    /\ tmsCred \in (IF variant = "status" THEN BOOLEAN ELSE {TRUE})
    /\ FMS_TOKEN = NoToken
    /\ force = FALSE
    /\ limit = CONCURRENCY
    /\ pros \in Batches
    /\ pc = "start"
    /\ fmsToken = NoToken
    /\ fmsMap = EmptyMap
    /\ proOf = EmptyMap
    /\ tmsAuth = NoAuth
    /\ groupSent = NoGroup
    /\ tmsMap = NoMap
    /\ index = 1
    /\ run = <<>>
    /\ results = [i \in 1..Len(pros) |-> EmptySlot]
    /\ sub = [i \in 1..Len(pros) |-> [b |-> NoOut, h |-> NoOut, q |-> "none"]]
    /\ calls = NoCalls
    /\ thrownBy = "none"
    /\ fails = [fms |-> {}, tms |-> {}]
    /\ other = Idle
    /\ input = NoInput

----------------------------------------------------------------------------
(* checkAll: credentials, Order-System login and search *)

CredMissing(v) ==
    CASE v = "status" -> ~fmsCred \/ ~tmsCred
      [] v = "puB"    -> FALSE
      [] OTHER        -> ~fmsCred

Throw(by) ==
    /\ pc' = "threw"
    /\ thrownBy' = by

\* if (FMS_TOKEN) return FMS_TOKEN;  -- the force argument is not looked at
CacheHit_IgnoresForce == Truthy(FMS_TOKEN)

\* if (FMS_TOKEN && !force) return FMS_TOKEN;
CacheHit == Truthy(FMS_TOKEN) /\ ~force

\* checkAll is entered: credential check, then authFms() up to its first await
CheckAllStart ==
    /\ pc = "start"
    /\ IF CredMissing(variant) THEN
           /\ Throw("cred")
           /\ UNCHANGED <<fmsToken, calls>>
       ELSE IF CacheHit THEN
           /\ fmsToken' = FMS_TOKEN
           /\ pc' = "search"
           /\ calls' = Sent(calls, "search", FMS_TOKEN)
           /\ UNCHANGED thrownBy
       ELSE
           /\ pc' = "login"
           /\ calls' = Called(calls, "login")
           /\ UNCHANGED <<fmsToken, thrownBy>>
    /\ UNCHANGED <<variant, force, input, other, groupSent,
                   fmsCred, tmsCred, FMS_TOKEN, pros, fmsMap, proOf,
                   tmsAuth, tmsMap, limit, index, run, results, sub, fails>>

\* An Order-System that is sent no credentials issues no token
LoginResponsesFor(cred) ==
    IF cred THEN LoginResponses
    ELSE {NetFail} \cup {Http(FALSE, b) : b \in LoginBodies}

\* The login response arrives: rest of authFms, then fmsSearchOrders is sent
FmsLoginDone ==
    /\ pc = "login"
    /\ \E resp \in LoginResponsesFor(fmsCred) :
        LET a == AuthFmsResult(variant, resp, FMS_TOKEN)
        IN  /\ FMS_TOKEN' = a.cache
            /\ fails' = Failed(fails, "fms", LoginFailure(resp))
            /\ IF a.throws THEN
                   /\ Throw("login")
                   /\ UNCHANGED <<fmsToken, calls>>
               ELSE
                   /\ fmsToken' = a.token
                   /\ pc' = "search"
                   /\ calls' = Sent(calls, "search", a.token)
                   /\ UNCHANGED thrownBy
    /\ UNCHANGED <<variant, force, input, other, groupSent,
                   fmsCred, tmsCred, pros, fmsMap, proOf,
                   tmsAuth, tmsMap, limit, index, run, results, sub>>

\* part_001: uniquePros.length > 0
HasUniquePros(resp) ==
    \E i \in 1..Len(BodyItems(resp.body)) :
        /\ RowAccepted("puC", BodyItems(resp.body)[i])
        /\ clean(BodyItems(resp.body)[i].pro) # NoStr

\* Does the draft go on to a Trace-System login after the search
TmsPhase(v, resp) ==
    CASE v \in {"status", "puA", "puB"} -> TRUE
      [] v = "puC"                     -> HasUniquePros(resp)
      [] OTHER                         -> FALSE

\* fmsSearchOrders and buildFmsMap on a search response
Search(v, resp) ==
    IF SearchThrows(v, resp) THEN [throws |-> TRUE, fail |-> SearchFailure(resp)]
    ELSE [throws |-> FALSE,
          fail |-> SearchFailure(resp),
          map |-> buildFmsMap(v, resp),
          proOf |-> IF v = "puC" THEN BuildProOf(BodyItems(resp.body), EmptyMap) ELSE EmptyMap,
          tms |-> TmsPhase(v, resp)]

\* Every way the search step can end, per draft
SearchOutcomes == [v \in Variants |-> {Search(v, resp) : resp \in SearchResponses(v)}]

\* A checkAll that answers an HTTP rejection of the search by dropping the
\* cached token and logging in again
FmsSearchDone_Relogin ==
    /\ pc = "search"
    /\ \E s \in SearchOutcomes[variant] :
        /\ fails' = Failed(fails, "fms", s.fail)
        /\ IF s.throws /\ s.fail = "search:http" THEN
               /\ FMS_TOKEN' = NoToken
               /\ pc' = "login"
               /\ calls' = Called(calls, "login")
               /\ UNCHANGED <<fmsMap, proOf, thrownBy>>
           ELSE IF s.throws THEN
               /\ Throw("search")
               /\ UNCHANGED <<FMS_TOKEN, fmsMap, proOf, calls>>
           ELSE
               /\ fmsMap' = s.map
               /\ proOf' = s.proOf
               /\ IF s.tms
                  THEN pc' = "tmsLogin" /\ calls' = Called(calls, "tmsLogin")
                  ELSE pc' = "fan0" /\ UNCHANGED calls
               /\ UNCHANGED <<FMS_TOKEN, thrownBy>>
    /\ UNCHANGED <<variant, force, input, other, groupSent, fmsCred, tmsCred, pros, fmsToken,
                   tmsAuth, tmsMap, limit, index, run, results, sub>>

\* The search response arrives: buildFmsMap, then authTms is entered
SearchArrives(s) ==
    /\ pc = "search"
    /\ fails' = Failed(fails, "fms", s.fail)
    /\ IF s.throws THEN
           /\ Throw("search")
           /\ UNCHANGED <<fmsMap, proOf, calls>>
       ELSE
           /\ fmsMap' = s.map
           /\ proOf' = s.proOf
           /\ IF s.tms
              THEN pc' = "tmsLogin" /\ calls' = Called(calls, "tmsLogin")
              ELSE pc' = "fan0" /\ UNCHANGED calls
           /\ UNCHANGED thrownBy
    /\ UNCHANGED <<variant, force, input, other, groupSent,
                   fmsCred, tmsCred, FMS_TOKEN, pros, fmsToken,
                   tmsAuth, tmsMap, limit, index, run, results, sub>>

FmsSearchDone == \E s \in SearchOutcomes[variant] : SearchArrives(s)

----------------------------------------------------------------------------
(* checkAll: the Trace-System phase, inside its try/catch *)

\* A catch block that lets the Trace-System failure escape checkAll
CaughtTmsFailure_Rethrown == "threw"

\* catch (e) { console.error("TMS auth failure:", e) }: checkAll goes on to the
\* per-identifier work
CaughtTmsFailure == "fan0"

\* authTms that returns the session without the group switch: the batched
\* trace is sent as soon as the login answers
TmsLoginDone_NoGroup ==
    /\ pc = "tmsLogin"
    /\ \E resp \in TmsLoginResponses :
        LET a == AuthTmsLogin(variant, resp)
        IN  /\ fails' = Failed(fails, "tms", TmsLoginFailure(resp))
            /\ IF a.throws THEN
                   /\ pc' = CaughtTmsFailure
                   /\ UNCHANGED <<tmsAuth, calls>>
               ELSE
                   /\ tmsAuth' = [set |-> TRUE, userId |-> a.userId, token |-> a.token]
                   /\ IF variant = "status"
                      THEN pc' = "fan0" /\ UNCHANGED calls
                      ELSE pc' = "trace" /\ calls' = Called(calls, "trace")
    /\ UNCHANGED <<variant, force, input, other, groupSent,
                   fmsCred, tmsCred, FMS_TOKEN, pros, fmsToken, fmsMap,
                   proOf, tmsMap, limit, index, run, results, sub, thrownBy>>

\* The Trace-System login response arrives; tmsChangeGroup is sent
TmsLoginDone ==
    /\ pc = "tmsLogin"
    /\ \E resp \in TmsLoginResponses :
        LET a == AuthTmsLogin(variant, resp)
        IN  /\ fails' = Failed(fails, "tms", TmsLoginFailure(resp))
            /\ IF a.throws THEN
                   /\ pc' = CaughtTmsFailure
                   /\ UNCHANGED <<tmsAuth, groupSent, calls>>
               ELSE
                   /\ tmsAuth' = [set |-> FALSE, userId |-> a.userId, token |-> a.token]
                   /\ groupSent' = [sent |-> TRUE, userId |-> a.userId, token |-> a.token]
                   /\ pc' = "tmsGroup"
                   /\ calls' = Called(calls, "group")
    /\ UNCHANGED <<variant, force, input, other, fmsCred, tmsCred, FMS_TOKEN, pros, fmsToken, fmsMap,
                   proOf, tmsMap, limit, index, run, results, sub, thrownBy>>

\* The group-switch response arrives; authTms returns; the batched trace is sent
TmsGroupDone ==
    /\ pc = "tmsGroup"
    /\ \E resp \in GroupResponses :
        /\ fails' = Failed(fails, "tms", GroupFailure(resp))
        /\ IF ChangeGroupThrows(variant, resp) THEN
               /\ tmsAuth' = NoAuth
               /\ pc' = CaughtTmsFailure
               /\ UNCHANGED calls
           ELSE
               /\ tmsAuth' = [tmsAuth EXCEPT !.set = TRUE]
               /\ IF variant = "status"
                  THEN pc' = "fan0" /\ UNCHANGED calls
                  ELSE pc' = "trace" /\ calls' = Called(calls, "trace")
    /\ UNCHANGED <<variant, force, input, other, groupSent,
                   fmsCred, tmsCred, FMS_TOKEN, pros, fmsToken, fmsMap,
                   proOf, tmsMap, limit, index, run, results, sub, thrownBy>>

\* Every way the batched trace step can end, per draft
TraceOutcomes == [v \in Variants |-> {tmsTrace(v, resp) : resp \in TraceResponses}]

\* The batched trace response arrives
TraceArrives(o) ==
    /\ pc = "trace"
    /\ tmsMap' = o.m
    /\ fails' = Failed(fails, "tms", o.fail)
    /\ pc' = "fan0"
    /\ UNCHANGED <<variant, force, input, other, groupSent,
                   fmsCred, tmsCred, FMS_TOKEN, pros, fmsToken, fmsMap,
                   proOf, tmsAuth, limit, index, run, results, sub, calls, thrownBy>>

TmsTraceDone == \E o \in TraceOutcomes[variant] : TraceArrives(o)

----------------------------------------------------------------------------
(* runWithConcurrency and the worker; the for-loop of check-status.js is    *)
(* the same worker run by a single runner                                   *)

Ended == [pc |-> "end", cur |-> 0, b |-> NoOut, h |-> NoOut, t |-> EmptyMap, q |-> "none"]

\* The worker once the order-side part is complete: check-status.js sends its
\* per-identifier trace query here, the other drafts return
AfterFms(i, b, h) ==
    [pc |-> IF variant = "status" /\ tmsAuth.set THEN "trace" ELSE "ret",
     cur |-> i, b |-> b, h |-> h, t |-> EmptyMap, q |-> "none"]

\* worker(items[i]) up to its first await
StartWorker(i) ==
    IF LookupDO(variant, fmsMap, pros[i]) # NoStr /\ DetailCalls(variant)
    THEN [pc |-> "basic", cur |-> i, b |-> NoOut, h |-> NoOut, t |-> EmptyMap, q |-> "none"]
    ELSE AfterFms(i, NoOut, NoOut)

\* next(): claim an index, return when the list is exhausted
Claim(i) == IF i > N THEN Ended ELSE StartWorker(i)

\* One runner per item, whatever the limit
NRunners_PerItem == N

NRunners == IF variant = "status" THEN Min(1, N) ELSE Min(limit, N)

CountPc(rs, p) == Cardinality({r \in 1..Len(rs) : rs[r].pc = p})

\* A detail call that reads the module-level cache when it is sent
TokenSent_FromCache == FMS_TOKEN

\* fetchFmsDetails(fmsToken, DO): the calls carry checkAll's local constant
TokenSent == fmsToken

\* The synchronous part of runWithConcurrency: every runner claims its first index
StartRunners ==
    /\ pc = "fan0"
    /\ LET rs == [r \in 1..NRunners |-> Claim(r)]
       IN  /\ run' = rs
           /\ calls' = [calls EXCEPT !.basic = @ + CountPc(rs, "basic"),
                                     !.trace = @ + CountPc(rs, "trace"),
                                     !.with = IF CountPc(rs, "basic") > 0
                                              THEN @ \cup {TokenSent} ELSE @]
    /\ index' = NRunners + 1
    /\ pc' = "fanout"
    /\ UNCHANGED <<variant, force, input, other, groupSent,
                   fmsCred, tmsCred, FMS_TOKEN, pros, fmsToken, fmsMap,
                   proOf, tmsAuth, tmsMap, limit, results, sub, thrownBy, fails>>

\* The runners are promise chains of their own: they run while checkAll awaits
\* Promise.all, and go on after a worker's throw has rejected it
PoolLive == pc = "fanout" \/ (pc = "threw" /\ thrownBy = "worker")

\* The location call of runner r completes; the status call is sent
BasicDone(r) ==
    /\ PoolLive
    /\ run[r].pc = "basic"
    /\ \E out \in DetailOutcomes :
        run' = [run EXCEPT ![r].pc = "head", ![r].b = out]
    /\ calls' = Sent(calls, "head", TokenSent)
    /\ UNCHANGED <<variant, force, input, other, groupSent,
                   fmsCred, tmsCred, FMS_TOKEN, pros, pc, fmsToken, fmsMap,
                   proOf, tmsAuth, tmsMap, limit, index, results, sub, thrownBy, fails>>

\* A worker that gives up the order side when there is no Trace-System session
WorkerRecord_TmsGatesFms(w) ==
    LET id == pros[w.cur]
        DO == IF tmsAuth.set THEN LookupDO(variant, fmsMap, id) ELSE NoStr
        pro == LookupPro(proOf, id)
        tms == CASE variant = "status" -> IF w.t = EmptyMap THEN TmsInit(variant) ELSE w.t
                 [] variant = "puC" -> TmsRes(variant, tmsAuth, tmsMap, clean(pro), pro # NoStr)
                 [] variant = "pu"  -> EmptyMap
                 [] OTHER -> TmsRes(variant, tmsAuth, tmsMap, clean(id), TRUE)
    IN  Record(variant, id, FmsRes(variant, DO, w.b, w.h), tms, pro)

\* A worker whose error flags are shared with the workers that finished before it
WorkerRecord_SharedFlags(w) ==
    LET id == pros[w.cur]
        DO == LookupDO(variant, fmsMap, id)
        pro == LookupPro(proOf, id)
        seen == \E j \in 1..N : /\ ~IsEmptySlot(results[j])
                                 /\ Flag(results[j].fms, "networkError")
        b == IF seen THEN [k |-> "net", v |-> "null"] ELSE w.b
        tms == CASE variant = "status" -> IF w.t = EmptyMap THEN TmsInit(variant) ELSE w.t
                 [] variant = "puC" -> TmsRes(variant, tmsAuth, tmsMap, clean(pro), pro # NoStr)
                 [] variant = "pu"  -> EmptyMap
                 [] OTHER -> TmsRes(variant, tmsAuth, tmsMap, clean(id), TRUE)
    IN  Record(variant, id, FmsRes(variant, DO, b, w.h), tms, pro)

\* The record the worker of runner state w returns
WorkerRecord(w) ==
    LET id == pros[w.cur]
        DO == LookupDO(variant, fmsMap, id)
        pro == LookupPro(proOf, id)
        tms == CASE variant = "status" -> IF w.t = EmptyMap THEN TmsInit(variant) ELSE w.t
                 [] variant = "puC" -> TmsRes(variant, tmsAuth, tmsMap, clean(pro), pro # NoStr)
                 [] variant = "pu"  -> EmptyMap
                 [] OTHER -> TmsRes(variant, tmsAuth, tmsMap, clean(id), TRUE)
    IN  Record(variant, id, FmsRes(variant, DO, w.b, w.h), tms, pro)

\* results.push(...) in completion order instead of results[current] = ...
ResultSlot_Push(w) == Cardinality({i \in 1..N : ~IsEmptySlot(results[i])}) + 1

\* results[current] = await worker(items[current], current)
ResultSlot(w) == w.cur

\* The worker of runner r returns w: results[current] is written and next()
\* claims the following index
Return(r, w) ==
    /\ results' = [results EXCEPT ![ResultSlot(w)] = WorkerRecord(w)]
    /\ sub' = [sub EXCEPT ![w.cur] = [b |-> w.b, h |-> w.h, q |-> w.q]]
    /\ LET nxt == Claim(index)
       IN  /\ run' = [run EXCEPT ![r] = nxt]
           /\ calls' = IF nxt.pc = "basic" THEN Sent(calls, "basic", TokenSent)
                       ELSE IF nxt.pc = "trace" THEN Called(calls, "trace")
                       ELSE calls
    /\ index' = index + 1

\* The status call of runner r completes: fetchFmsDetails returns, and so
\* does the worker unless check-status.js now sends its trace query
HeadDone(r) ==
    /\ PoolLive
    /\ run[r].pc = "head"
    /\ \E out \in DetailOutcomes :
        LET w == AfterFms(run[r].cur, run[r].b, out)
        IN  IF w.pc = "trace" THEN
                /\ run' = [run EXCEPT ![r] = w]
                /\ calls' = Called(calls, "trace")
                /\ UNCHANGED <<index, results, sub>>
            ELSE Return(r, w)
    /\ UNCHANGED <<variant, force, input, other, groupSent,
                   fmsCred, tmsCred, FMS_TOKEN, pros, pc, fmsToken, fmsMap,
                   proOf, tmsAuth, tmsMap, limit, thrownBy, fails>>

\* Every way the per-identifier trace query can end
TraceOneOutcomes == [id \in Ids |-> {TraceOne(resp, id) : resp \in TraceResponses}]

\* check-status.js: the per-identifier trace response arrives and the loop
\* pushes the record
TraceOneArrives(r, o) ==
    /\ pc = "fanout"
    /\ run[r].pc = "trace"
    /\ Return(r, [run[r] EXCEPT !.t = o.t, !.q = o.q])
    /\ UNCHANGED <<variant, force, input, other, groupSent,
                   fmsCred, tmsCred, FMS_TOKEN, pros, pc, fmsToken, fmsMap,
                   proOf, tmsAuth, tmsMap, limit, thrownBy, fails>>

TraceOneDone(r) ==
    /\ run[r].pc = "trace"
    /\ \E o \in TraceOneOutcomes[pros[run[r].cur]] : TraceOneArrives(r, o)

\* A worker that made no call has returned (its promise was already resolved)
WorkerReturn(r) ==
    /\ PoolLive
    /\ run[r].pc = "ret"
    /\ Return(r, run[r])
    /\ UNCHANGED <<variant, force, input, other, groupSent,
                   fmsCred, tmsCred, FMS_TOKEN, pros, pc, fmsToken, fmsMap,
                   proOf, tmsAuth, tmsMap, limit, thrownBy, fails>>

\* Promise.all(runners) resolves; checkAll returns the list
\* A pool that resolves as soon as one runner has returned
Finish_AnyRunner ==
    /\ pc = "fanout"
    /\ \E r \in 1..Len(run) : run[r].pc = "end"
    /\ pc' = "done"
    /\ UNCHANGED <<variant, force, input, other, groupSent,
                   fmsCred, tmsCred, FMS_TOKEN, pros, fmsToken, fmsMap,
                   proOf, tmsAuth, tmsMap, limit, index, run, results, sub, calls, thrownBy, fails>>

Finish ==
    /\ pc = "fanout"
    /\ \A r \in 1..Len(run) : run[r].pc = "end"
    /\ pc' = "done"
    /\ UNCHANGED <<variant, force, input, other, groupSent,
                   fmsCred, tmsCred, FMS_TOKEN, pros, fmsToken, fmsMap,
                   proOf, tmsAuth, tmsMap, limit, index, run, results, sub, calls, thrownBy, fails>>

Next ==
    \/ CheckAllStart
    \/ FmsLoginDone
    \/ FmsSearchDone
    \/ TmsLoginDone
    \/ TmsGroupDone
    \/ TmsTraceDone
    \/ StartRunners
    \/ \E r \in 1..Len(run) : BasicDone(r)
    \/ \E r \in 1..Len(run) : HeadDone(r)
    \/ \E r \in 1..Len(run) : TraceOneDone(r)
    \/ \E r \in 1..Len(run) : WorkerReturn(r)
    \/ Finish

Spec == Init /\ [][Next]_vars

\* The same behaviours under a second name: the invariants about partial
\* records, failure isolation and the group call are model-checked in a run
\* of their own
SpecBatch == Init /\ [][Next]_vars

\* And under a third name, for the invariants about the token and the
\* sessions of a batch
SpecToken == Init /\ [][Next]_vars

----------------------------------------------------------------------------
(* runWithConcurrency called with any limit >= 1: check-status-pu.js, whose  *)
(* checkAll makes no Trace-System call                                      *)

InitPool ==
    /\ variant = "pu"
    /\ fmsCred = TRUE
    /\ tmsCred = TRUE
    /\ FMS_TOKEN = NoToken
    /\ force = FALSE
    /\ limit \in (1..MaxLimit) \cup {CONCURRENCY}
    /\ pros \in Batches
    /\ pc = "start"
    /\ fmsToken = NoToken
    /\ fmsMap = EmptyMap
    /\ proOf = EmptyMap
    /\ tmsAuth = NoAuth
    /\ groupSent = NoGroup
    /\ tmsMap = NoMap
    /\ index = 1
    /\ run = <<>>
    /\ results = [i \in 1..Len(pros) |-> EmptySlot]
    /\ sub = [i \in 1..Len(pros) |-> [b |-> NoOut, h |-> NoOut, q |-> "none"]]
    /\ calls = NoCalls
    /\ thrownBy = "none"
    /\ fails = [fms |-> {}, tms |-> {}]
    /\ other = Idle
    /\ input = NoInput

NextPool ==
    \/ CheckAllStart
    \/ FmsLoginDone
    \/ FmsSearchDone
    \/ StartRunners
    \/ \E r \in 1..Len(run) : BasicDone(r)
    \/ \E r \in 1..Len(run) : HeadDone(r)
    \/ \E r \in 1..Len(run) : WorkerReturn(r)
    \/ Finish

SpecPool == InitPool /\ [][NextPool]_vars

----------------------------------------------------------------------------
(* authFms(force) on a warm instance: the cache holds what an earlier        *)
(* invocation left there, and the call ends when the search is sent          *)

InitAuth ==
    /\ variant \in Variants
    /\ fmsCred \in BOOLEAN
    /\ tmsCred = TRUE
    /\ FMS_TOKEN \in {NoToken, EmptyToken, OldToken}
    /\ force \in BOOLEAN
    /\ limit = CONCURRENCY
    /\ pros \in Batches
    /\ pc = "start"
    /\ fmsToken = NoToken
    /\ fmsMap = EmptyMap
    /\ proOf = EmptyMap
    /\ tmsAuth = NoAuth
    /\ groupSent = NoGroup
    /\ tmsMap = NoMap
    /\ index = 1
    /\ run = <<>>
    /\ results = [i \in 1..Len(pros) |-> EmptySlot]
    /\ sub = [i \in 1..Len(pros) |-> [b |-> NoOut, h |-> NoOut, q |-> "none"]]
    /\ calls = NoCalls
    /\ thrownBy = "none"
    /\ fails = [fms |-> {}, tms |-> {}]
    /\ other = Idle
    /\ input = NoInput

NextAuth ==
    \/ CheckAllStart
    \/ FmsLoginDone

SpecAuth == InitAuth /\ [][NextAuth]_vars

----------------------------------------------------------------------------
(* Properties *)

Filled(i) == ~IsEmptySlot(results[i])

\* Records whose order side came out of fetchFmsDetails
Fetched(i) == Filled(i) /\ results[i].fms.hasDO

OrderOutage == {"login:net", "login:http", "search:net", "search:http"}

TmsLoginFailed == fails.tms \cap {"login:net", "login:http", "login:nosession"} # {}

\* Every Trace-System call this invocation issued failed, and there was one
TraceOutage ==
    /\ calls.tmsLogin = 1
    /\ fails.tms \cap {"login:net", "login:http"} # {}
    /\ calls.group = 1 => fails.tms \cap {"group:net", "group:http"} # {}
    /\ (variant # "status" /\ calls.trace = 1) =>
            fails.tms \cap {"trace:net", "trace:http"} # {}
    /\ variant = "status" => \A i \in 1..N : sub[i].q # "answered"

\* C1: when checkAll returns, the list has exactly one record per requested
\* identifier and the record at position i carries the i-th identifier,
\* whatever the lookups returned and in whatever order the workers completed.
C1_OrderPreserved ==
    pc = "done" =>
        /\ DOMAIN results = 1..N
        /\ \A i \in 1..N :
            /\ ~IsEmptySlot(results[i])
            /\ IdOf(variant, results[i]) = pros[i]

\* part_000 returned two records whose detail fetches ran side by side and
\* ended differently
C1_Witness ==
    /\ pc = "done"
    /\ variant = "puA"
    /\ N = 2
    /\ Fetched(1) /\ Fetched(2)
    /\ results[1].fms.networkError
    /\ results[2].fms.ok

C3_OrderFailureThrows ==
    (variant \in {"status", "pro"} /\ fails.fms # {}) =>
        /\ pc = "threw"
        /\ calls.search = (IF \E t \in fails.fms : t \in {"search:net", "search:http"}
                           THEN 1 ELSE 0)
        /\ calls.tmsLogin = 0 /\ calls.group = 0 /\ calls.trace = 0
        /\ calls.basic = 0 /\ calls.head = 0

\* C4: when the Trace-System login failed, every record has attempted = false.
\* Refuted by part_001.
C4_LoginFailureNotAttempted ==
    (variant \in {"status", "puA", "puC"} /\ TmsLoginFailed) =>
        \A i \in 1..N : Filled(i) => ~Flag(results[i].tms, "attempted")

\* C5: the order side of every record, and the detail calls issued, are a
\* function of the Order-System responses alone: the order side is what
\* the Order-System-only draft computes from the resolution map and the two
\* sub-call outcomes, whatever the Trace-System did.
C5_OrderSideIndependent ==
    /\ \A i \in 1..N : Filled(i) =>
        results[i].fms =
            FmsRes(IF variant \in {"status", "puA", "puB"} THEN "pu" ELSE variant,
                   LookupDO(variant, fmsMap, pros[i]), sub[i].b, sub[i].h)
    /\ pc = "done" =>
        LET resolved == {i \in 1..N : LookupDO(variant, fmsMap, pros[i]) # NoStr}
            n == IF DetailCalls(variant) THEN Cardinality(resolved) ELSE 0
        IN  calls.basic = n /\ calls.head = n

\* part_000 returned complete order data although the Trace-System login was
\* rejected
C5_Witness ==
    /\ pc = "done"
    /\ variant = "puA"
    /\ "login:http" \in fails.tms
    /\ ~tmsAuth.set
    /\ \E i \in 1..N : Fetched(i) /\ results[i].fms.ok /\ ~results[i].fms.partial

\* C6: when the trace query fails after a successful Trace-System login, no
\* record has attempted = true.  Refuted by check-status.js.
C6_TraceFailureNotAttempted ==
    /\ variant = "status" =>
        \A i \in 1..N :
            (Filled(i) /\ sub[i].q \in {"trace:net", "trace:http"}) =>
                ~Flag(results[i].tms, "attempted")
    /\ (variant = "puA" /\ fails.tms \cap {"trace:net", "trace:http"} # {}) =>
        \A i \in 1..N : Filled(i) => ~Flag(results[i].tms, "attempted")

\* C7: a record returned by fetchFmsDetails satisfies exactly one of
\* networkError, generalError, ok.  Refuted by the fetchFmsDetails of
\* check-status-pro.js.
C7_ExactlyOneClass ==
    \A i \in 1..N : Fetched(i) =>
        Cardinality({f \in {"networkError", "generalError", "ok"} :
                        Flag(results[i].fms, f)}) = 1

\* C8: a fetched record has networkError exactly when one of its two
\* sub-calls hit a connectivity failure, and then neither ok nor generalError.
C8_NetworkErrorIff ==
    \A i \in 1..N : Fetched(i) =>
        LET f == results[i].fms
        IN  /\ Flag(f, "networkError") <=> (sub[i].b.k = "net" \/ sub[i].h.k = "net")
            /\ Flag(f, "networkError") => ~Flag(f, "ok") /\ ~Flag(f, "generalError")

\* part_001: the location call failed with a bad status and the status call
\* hit a connectivity failure
C8_Witness ==
    /\ variant = "puC"
    /\ \E i \in 1..N :
        /\ Fetched(i)
        /\ sub[i].b.k = "err"
        /\ sub[i].h.k = "net"
        /\ results[i].fms.networkError

\* C9 as stated: in a networkError record every other field is null or false,
\* basicOk and headOk included.  Refuted: the flag of the sub-call that
\* succeeded stays true.
C9_AllOtherFieldsCleared ==
    \A i \in 1..N : Fetched(i) =>
        LET f == results[i].fms
        IN  Flag(f, "networkError") =>
                /\ ~Flag(f, "ok") /\ ~Flag(f, "partial") /\ ~Flag(f, "generalError")
                /\ ~Flag(f, "basicOk") /\ ~Flag(f, "headOk")
                /\ f.loc = "null" /\ f.status = "null" /\ f.substatus = "null"

\* C9, amended: in a networkError record ok, partial and generalError are
\* false and loc, status and substatus are null; basicOk and headOk still
\* tell which sub-call succeeded.
C9_NetworkErrorRecord ==
    \A i \in 1..N : Fetched(i) =>
        LET f == results[i].fms
        IN  Flag(f, "networkError") =>
                /\ ~f.ok /\ ~f.partial /\ ~f.generalError
                /\ f.loc = "null" /\ f.status = "null" /\ f.substatus = "null"
                /\ f.basicOk = (sub[i].b.k = "ok")
                /\ f.headOk = (sub[i].h.k = "ok")

\* part_000: the location call succeeded, the status call hit a connectivity
\* failure
C9_Witness ==
    /\ variant = "puA"
    /\ \E i \in 1..N :
        /\ Fetched(i)
        /\ sub[i].b.k = "ok"
        /\ sub[i].h.k = "net"
        /\ results[i].fms.networkError
        /\ results[i].fms.basicOk

\* C10: a fetched record has generalError exactly when both sub-calls failed
\* for a reason other than connectivity; when one failed that way and the
\* other succeeded, generalError is false and ok is true.
C10_GeneralErrorIff ==
    \A i \in 1..N : Fetched(i) =>
        LET f == results[i].fms
            b == sub[i].b.k
            h == sub[i].h.k
        IN  /\ Flag(f, "generalError") <=> (b = "err" /\ h = "err")
            /\ ((b = "err" /\ h = "ok") \/ (b = "ok" /\ h = "err")) =>
                    ~f.generalError /\ f.ok

\* check-status-pu.js: one record whose location call failed with a bad
\* status while the status call succeeded, another whose two calls both failed
C10_Witness ==
    /\ variant = "pu"
    /\ pc = "done"
    /\ \E i \in 1..N :
        Fetched(i) /\ sub[i].b.k = "err" /\ sub[i].h.k = "ok" /\ results[i].fms.ok
    /\ \E i \in 1..N :
        Fetched(i) /\ sub[i].b.k = "err" /\ sub[i].h.k = "err" /\ results[i].fms.generalError

\* C11 as stated: on every record fetchFmsDetails returns, partial equals
\* basicOk XOR headOk.  Refuted: a networkError record has partial = false
\* even when exactly one sub-call succeeded.
C11_PartialIsXor ==
    \A i \in 1..N : (Fetched(i) /\ variant = "status") =>
        LET f == results[i].fms
        IN  /\ f.partial = (f.basicOk # f.headOk)
            /\ f.partial = ((sub[i].b.k = "ok") # (sub[i].h.k = "ok"))

\* C11, amended: on every record fetchFmsDetails returns without
\* networkError, partial equals basicOk XOR headOk, i.e. it is true exactly
\* when one of the two sub-calls succeeded; on a networkError record partial
\* is false.
C11_PartialUnlessNetwork ==
    \A i \in 1..N : (Fetched(i) /\ DetailCalls(variant)) =>
        LET f == results[i].fms
            one == (sub[i].b.k = "ok") # (sub[i].h.k = "ok")
        IN  /\ f.basicOk = (sub[i].b.k = "ok")
            /\ f.headOk = (sub[i].h.k = "ok")
            /\ f.partial = (~f.networkError /\ one)

\* check-status.js: the location call succeeded and the status call failed
\* with a bad status, and the record is partial
C11_Witness ==
    /\ variant = "status"
    /\ \E i \in 1..N :
        /\ Fetched(i)
        /\ sub[i].b.k = "ok"
        /\ sub[i].h.k = "err"
        /\ results[i].fms.partial
        /\ results[i].fms.ok

\* C12: an identifier that no accepted search row resolved gets hasDO = false,
\* ok = false and no error flag, and no detail call; at return the number of
\* detail fetches equals the number of resolved identifiers.  Refuted: the
\* map is a plain object, and a lookup of an Object.prototype member name
\* yields the inherited member.
C12_UnresolvedNoDetail ==
    (variant \in {"status", "pro"} /\ fails.fms = {}) =>
        LET resolved == {i \in 1..N : pros[i] \in DOMAIN fmsMap}
        IN  /\ \A i \in 1..N : (Filled(i) /\ i \notin resolved) =>
                /\ ~results[i].fms.hasDO
                /\ ~Flag(results[i].fms, "ok")
                /\ ~Flag(results[i].fms, "networkError")
                /\ ~Flag(results[i].fms, "generalError")
                /\ sub[i].b = NoOut /\ sub[i].h = NoOut
            /\ pc = "done" =>
                /\ Cardinality({i \in 1..N : results[i].fms.hasDO}) = Cardinality(resolved)
                /\ variant = "status" => calls.basic = Cardinality(resolved)

\* C13: at every point of every interleaving of runWithConcurrency, for any
\* limit >= 1, the worker invocations started and not yet completed number
\* at most limit, and so do the detail fetches in flight.
C13_AtMostLimitInFlight ==
    LET started == {r \in 1..Len(run) : run[r].pc \in {"basic", "head", "trace", "ret"}}
        fetching == {r \in 1..Len(run) : run[r].pc \in {"basic", "head"}}
    IN  /\ limit >= 1
        /\ Cardinality(started) <= limit
        /\ Cardinality(fetching) <= limit
        /\ calls.basic - Cardinality({i \in 1..N : Fetched(i)}) <= limit

\* limit 1, two identifiers: the second detail fetch is in flight, and it was
\* started only after the first record was written
C13_Witness ==
    /\ limit = 1
    /\ N = 2
    /\ pc = "fanout"
    /\ Len(run) = 1
    /\ run[1].cur = 2
    /\ run[1].pc = "basic"
    /\ Fetched(1)
    /\ calls.basic = 2

\* C14: a detail fetch that fails for one identifier shows only as flags on
\* that identifier's record: checkAll never throws once a detail call was
\* sent, and when it returns, every resolved identifier's two detail calls
\* were made and answered and every record is the one its own two outcomes
\* give, whatever happened to the other identifiers.
C14_FailureStaysOnItsRecord ==
    DetailCalls(variant) =>
        /\ pc = "threw" => (calls.basic = 0 /\ calls.head = 0)
        /\ pc = "done" =>
            \A i \in 1..N :
                /\ Filled(i)
                /\ LookupDO(variant, fmsMap, pros[i]) # NoStr =>
                       (sub[i].b # NoOut /\ sub[i].h # NoOut)
                /\ results[i].fms =
                       FmsRes(variant, LookupDO(variant, fmsMap, pros[i]), sub[i].b, sub[i].h)
                /\ ({sub[i].b.k, sub[i].h.k} \cap {"net", "err"} # {}) =>
                       (~results[i].fms.ok \/ results[i].fms.partial)
                /\ (sub[i].b.k = "ok" /\ sub[i].h.k = "ok") =>
                       /\ results[i].fms.ok
                       /\ ~results[i].fms.networkError
                       /\ ~results[i].fms.generalError
                       /\ ~results[i].fms.partial

\* part_000 returned two records: the first identifier's location call was
\* rejected, the second identifier's record is complete
C14_Witness ==
    /\ variant = "puA"
    /\ pc = "done"
    /\ N = 2
    /\ sub[1].b.k = "net"
    /\ results[1].fms.networkError
    /\ sub[2].b.k = "ok"
    /\ sub[2].h.k = "ok"
    /\ results[2].fms.ok
    /\ results[2].fms.loc = "LOC"

\* C15: authFms(force) sends no login call and returns the cached token
\* exactly when a non-empty token is cached and force is false; otherwise it
\* sends exactly one login call, and when that call succeeds the token it
\* returns is the one now cached, taken from the response.
C15_CacheHitIffNoLogin ==
    /\ calls.login <= 1
    /\ pc = "login" => (calls.login = 1 /\ ~(Truthy(FMS_TOKEN) /\ ~force))
    /\ (pc = "search" /\ calls.login = 0) =>
           (Truthy(FMS_TOKEN) /\ ~force /\ fmsToken = FMS_TOKEN)
    /\ (pc = "search" /\ calls.login = 1) =>
           /\ fmsToken = FMS_TOKEN
           /\ Truthy(fmsToken) => fmsToken \in Tokens
    /\ (thrownBy = "login") => calls.login = 1

\* A forced call with a token cached: one login call, the new token replaces
\* the old one and is returned
C15_Witness ==
    /\ force
    /\ pc = "search"
    /\ calls.login = 1
    /\ fmsToken \in Tokens
    /\ FMS_TOKEN = fmsToken

\* C16: authFms throws whenever the login transport fails or the response
\* carries no token at the top level, under data or under result; it never
\* returns an empty or absent token, so every search and detail call is sent
\* with a non-empty token.
C16_NeverEmptyToken ==
    /\ ({"login:net", "login:notoken"} \cap fails.fms # {}) => pc = "threw"
    /\ (calls.search > 0 \/ calls.basic > 0 \/ calls.head > 0) => Truthy(fmsToken)

\* C17: every trace query is sent after a set-active-group call of the same
\* batch has completed, and that call carried the user id and session token
\* of the batch's own login, the ones the trace query is sent with; while the
\* group call is outstanding no trace query has been sent.
C17_GroupBeforeTrace ==
    /\ pc \in {"start", "login", "search", "tmsLogin", "tmsGroup"} => calls.trace = 0
    /\ calls.trace > 0 =>
        /\ calls.tmsLogin = 1
        /\ calls.group = 1
        /\ tmsAuth.set
        /\ groupSent = [sent |-> TRUE, userId |-> tmsAuth.userId, token |-> tmsAuth.token]
    /\ groupSent.sent => calls.tmsLogin = 1

\* The batched trace query is out, after the group call answered
C17_Witness ==
    /\ pc = "trace"
    /\ calls.trace = 1
    /\ calls.group = 1
    /\ groupSent.sent
    /\ groupSent.token \in Sessions
    /\ tmsAuth.token = groupSent.token

\* C18: a set-active-group call that fails, by a non-2xx status or by a
\* transport failure, does not fail the Trace-System login: authTms still
\* returns the session and the batch goes on to its trace query.
C18_GroupFailureNotFatal ==
    ({"group:net", "group:http"} \cap fails.tms # {} /\ pc # "tmsGroup") =>
        /\ tmsAuth.set
        /\ tmsAuth.token = groupSent.token
        /\ (pc = "done" /\ variant # "status") => calls.trace = 1
        /\ (pc = "done" /\ variant = "status") => calls.trace = N

\* C19: one checkAll sends at most one search request and at most one trace
\* query, whatever the number of identifiers.
C19_OneSearchOneTrace ==
    /\ calls.search <= 1
    /\ calls.trace <= 1

\* C20: when the Trace-System login succeeded and the batched trace query is
\* answered 2xx with zero rows (an empty array at the top level or under
\* data, rows or result, or no row container at all), the trace map is empty,
\* not an error; and with a session and an empty trace map every record's
\* trace side has attempted = true and notFound = true.
C20_ZeroRowsNotFound ==
    /\ (pc = "trace" /\ tmsAuth.set) =>
           \A resp \in {r \in TraceResponses : ZeroRows(r)} :
               tmsTrace(variant, resp).m = [set |-> TRUE, map |-> EmptyMap]
    /\ (tmsAuth.set /\ tmsMap = [set |-> TRUE, map |-> EmptyMap]) =>
           \A i \in 1..N : Filled(i) =>
               /\ Flag(results[i].tms, "attempted")
               /\ Flag(results[i].tms, "notFound")
               /\ ~Flag(results[i].tms, "ok")
               /\ ~Flag(results[i].tms, "networkError")
               /\ ~Flag(results[i].tms, "generalError")

\* C21: a transport failure or a non-2xx status of the trace query is an
\* error inside tracing, never the nothing-found case: no trace map is built
\* from it and no record's trace side has notFound = true because of it.
C21_TraceFailureNotNotFound ==
    /\ (variant # "status" /\ {"trace:net", "trace:http"} \cap fails.tms # {}) =>
           /\ tmsMap = NoMap
           /\ \A i \in 1..N : Filled(i) => ~Flag(results[i].tms, "notFound")
    /\ variant = "status" =>
           \A i \in 1..N : (Filled(i) /\ sub[i].q \in {"trace:net", "trace:http"}) =>
               ~Flag(results[i].tms, "notFound")

\* C22: a search row enters the identifier -> order-reference map only when
\* its order reference is 'DO' followed by at least six digits (and, where
\* the mode has an identifier format, its identifier matches it), so no
\* detail fetch is made for an order reference outside that pattern.
C22_OnlyPatternOrders ==
    /\ \A k \in DOMAIN fmsMap :
           /\ ReOrder(fmsMap[k])
           /\ k # NoStr
           /\ variant \in {"status", "puB"} => ReIdent(k)
    /\ \A i \in 1..N : Fetched(i) => ReOrder(results[i].fms.DO)

\* C23: a 200 search response with a parsable body never makes checkAll
\* throw, whatever its rows are (null, a field missing or in the wrong
\* format) and also when the body has no item list: while the search is
\* outstanding, none of these answers makes fmsSearchOrders or buildFmsMap
\* throw.
C23_MalformedRowsDropped ==
    pc = "search" =>
        \A resp \in SearchResponses(variant) :
            (~resp.net /\ resp.ok /\ resp.body.kind # "bad") =>
                ~SearchThrows(variant, resp)

\* C24: the trace side of every record checkAll returns is in exactly one of
\* three states: not attempted (attempted, ok and notFound all false),
\* attempted and not found (attempted and notFound true, ok false), or
\* attempted and found (attempted and ok true, notFound false).
C24_ThreeTraceStates ==
    (pc = "done" /\ variant # "pu") =>
        \A i \in 1..N :
            LET t == results[i].tms
                a == Flag(t, "attempted")
                o == Flag(t, "ok")
                nf == Flag(t, "notFound")
            IN  \/ ~a /\ ~o /\ ~nf
                \/ a /\ ~o /\ nf
                \/ a /\ o /\ ~nf

\* C25: with a required credential missing, checkAll fails before any
\* network call: no login, search, group, trace or detail request is sent.
C25_NoCallWithoutCredentials ==
    (~fmsCred \/ ~tmsCred) =>
        /\ calls = NoCalls
        /\ pc \in {"start", "threw"}
        /\ pc = "threw" => thrownBy = "cred"

\* C26: the phases of one checkAll are strictly ordered: no search before the
\* Order-System login has answered, no Trace-System call before the search
\* has answered, no detail fetch before the Trace-System phase has ended, and
\* no trace query in flight once a detail fetch has started.
C26_PhasesOrdered ==
    /\ pc \in {"start", "login"} => calls.search = 0
    /\ pc \in {"start", "login", "search"} =>
           (calls.tmsLogin = 0 /\ calls.group = 0 /\ calls.trace = 0)
    /\ pc \in {"start", "login", "search", "tmsLogin", "tmsGroup", "trace"} =>
           (calls.basic = 0 /\ calls.head = 0)
    /\ calls.basic > 0 => \A r \in 1..Len(run) : run[r].pc # "trace"

----------------------------------------------------------------------------
(* The life of one process: the handler calls checkAll again and again, and a *)
(* second invocation may run its authFms while the first is still running.    *)
(* FMS_TOKEN is the module-level variable both share; every other variable of *)
(* checkAll is a local that each call creates afresh.                          *)

\* A later checkAll that finds the session of the one before it
FreshTmsAuth_Kept == tmsAuth

\* checkAll's local session: "let tmsAuth = null" at every entry
FreshTmsAuth == NoAuth

\* The handler calls checkAll again after the previous call returned or threw
Restart ==
    /\ pc \in {"done", "threw"}
    /\ pc' = "start"
    /\ fmsToken' = NoToken
    /\ fmsMap' = EmptyMap
    /\ proOf' = EmptyMap
    /\ tmsAuth' = FreshTmsAuth
    /\ groupSent' = NoGroup
    /\ tmsMap' = NoMap
    /\ index' = 1
    /\ run' = <<>>
    /\ results' = [i \in 1..N |-> EmptySlot]
    /\ sub' = [i \in 1..N |-> [b |-> NoOut, h |-> NoOut, q |-> "none"]]
    /\ calls' = NoCalls
    /\ thrownBy' = "none"
    /\ fails' = [fms |-> {}, tms |-> {}]
    /\ UNCHANGED <<variant, force, input, other, fmsCred, tmsCred, FMS_TOKEN, pros, limit>>

\* The second invocation enters checkAll and calls authFms
OtherStart ==
    /\ other.pc = "idle"
    /\ ~CredMissing(variant)
    /\ other' = IF CacheHit THEN [pc |-> "running", token |-> FMS_TOKEN]
                ELSE [pc |-> "login", token |-> NoToken]
    /\ UNCHANGED <<variant, force, input, groupSent, fmsCred, tmsCred, FMS_TOKEN, pros, pc, fmsToken,
                   fmsMap, proOf, tmsAuth, tmsMap, limit, index, run, results, sub, calls,
                   thrownBy, fails>>

\* The token Order-System issues to the second invocation's login
OtherToken == "tokB"

\* A login response as the second invocation gets it
Reissued(resp) ==
    IF resp.net THEN resp
    ELSE IF "token" \in DOMAIN resp.body THEN [resp EXCEPT !.body.token = OtherToken]
    ELSE resp

\* The second invocation's login response arrives: authFms writes the cache
OtherLoginDone ==
    /\ other.pc = "login"
    /\ \E resp \in LoginResponsesFor(fmsCred) :
        LET a == AuthFmsResult(variant, Reissued(resp), FMS_TOKEN)
        IN  /\ FMS_TOKEN' = a.cache
            /\ other' = IF a.throws THEN Idle ELSE [pc |-> "running", token |-> a.token]
    /\ UNCHANGED <<variant, force, input, groupSent, fmsCred, tmsCred, pros, pc, fmsToken,
                   fmsMap, proOf, tmsAuth, tmsMap, limit, index, run, results, sub, calls,
                   thrownBy, fails>>

\* The second invocation's checkAll returns or throws
OtherEnd ==
    /\ other.pc = "running"
    /\ other' = Idle
    /\ UNCHANGED <<variant, force, input, groupSent, fmsCred, tmsCred, FMS_TOKEN, pros, pc, fmsToken,
                   fmsMap, proOf, tmsAuth, tmsMap, limit, index, run, results, sub, calls,
                   thrownBy, fails>>

InitProc ==
    /\ Init
    /\ fmsCred
    /\ tmsCred
    /\ Len(pros) = 1

NextProc == Next \/ Restart \/ OtherStart \/ OtherLoginDone \/ OtherEnd

SpecProc == InitProc /\ [][NextProc]_vars

\* C28: once a non-empty token is in the cache it stays there, and a checkAll that is
\* entered while it is there sends no login call and takes that token as its own
C28_TokenStaysCached ==
    [][/\ Truthy(FMS_TOKEN) => Truthy(FMS_TOKEN')
       /\ (pc = "start" /\ pc' # "start" /\ Truthy(FMS_TOKEN)) =>
              (pc' = "search" /\ calls'.login = 0 /\ fmsToken' = FMS_TOKEN)]_vars

\* C29: no Trace-System session crosses from one checkAll to the next: an invocation starts
\* without one, and whenever it has sent a trace query it has sent exactly one Trace-System
\* login of its own and the query's session is the (userId, token) that login returned
C29_OwnTraceLogin ==
    /\ pc \in {"start", "login", "search"} => (tmsAuth = NoAuth /\ calls.tmsLogin = 0)
    /\ pc \in {"tmsGroup", "trace"} => calls.tmsLogin = 1
    /\ (calls.trace > 0 \/ pc = "trace") =>
        /\ calls.tmsLogin = 1
        /\ tmsAuth.set
        /\ groupSent.sent
        /\ groupSent.userId = tmsAuth.userId
        /\ groupSent.token = tmsAuth.token

\* a checkAll that found the Order-System token of an earlier invocation in the cache has
\* logged in to Trace-System itself and sent a trace query with that session
C29_Witness ==
    /\ calls.login = 0
    /\ calls.search = 1
    /\ calls.tmsLogin = 1
    /\ calls.trace = 1
    /\ tmsAuth.set
    /\ tmsAuth.token \in Sessions

\* C30: in a record fetchFmsDetails returned, loc is non-null only if the location call
\* succeeded (and basicOk says so), status and substatus only if the status call succeeded
\* (and headOk says so); when both succeeded the record is ok, not partial, and holds the
\* location of the location response and the status and sub-status of the status response
C30_FieldsFollowSubCalls ==
    variant # "pro" =>
        \A i \in 1..N : Fetched(i) =>
            LET f == results[i].fms
                b == sub[i].b
                h == sub[i].h
            IN  /\ f.basicOk <=> b.k = "ok"
                /\ f.headOk <=> h.k = "ok"
                /\ f.loc # "null" => f.basicOk
                /\ f.status # "null" => f.headOk
                /\ f.substatus # "null" => f.headOk
                /\ (b.k = "ok" /\ h.k = "ok") =>
                       /\ f.ok
                       /\ ~f.partial
                       /\ f.loc = (IF b.v = "val" THEN "LOC" ELSE "null")
                       /\ f.status = (IF h.v = "val" THEN "ST" ELSE "null")
                       /\ f.substatus = (IF h.v = "val" THEN "SUB" ELSE "null")

\* check-status.js has returned one record whose two calls both succeeded and one whose
\* location call was rejected while its status call succeeded
C30_Witness ==
    /\ variant = "status"
    /\ pc = "done"
    /\ \E i \in 1..N :
        /\ Fetched(i)
        /\ sub[i].b.k = "ok" /\ sub[i].h.k = "ok"
        /\ results[i].fms.loc = "LOC" /\ results[i].fms.status = "ST"
    /\ \E j \in 1..N :
        /\ Fetched(j)
        /\ sub[j].b.k = "err" /\ sub[j].h.k = "ok"
        /\ results[j].fms.loc = "null" /\ results[j].fms.status = "ST"

\* C31: every fetchFmsDetails sends exactly two GET calls, the status call when the location
\* call has completed, whatever its outcome: the location calls not yet followed by a status
\* call are exactly those still in flight, every record with an order reference has an
\* outcome for both calls, and at the end each call was sent once per such record
C31_TwoSequentialGets ==
    /\ calls.head <= calls.basic
    /\ pc = "fanout" => calls.basic - calls.head = CountPc(run, "basic")
    /\ \A i \in 1..N : Fetched(i) => (sub[i].b.k # "none" /\ sub[i].h.k # "none")
    /\ pc = "done" =>
        /\ calls.basic = Cardinality({i \in 1..N : Fetched(i)})
        /\ calls.head = calls.basic

\* Every response arrives and every settled promise is run: the event loop never leaves an
\* enabled step of the pool untaken for ever
SpecPoolFair == InitPool /\ [][NextPool]_vars /\ WF_vars(NextPool)

\* The state part of C32
PoolSound ==
    LET active == {r \in 1..Len(run) : run[r].pc # "end"}
    IN  /\ pc \in {"fanout", "done"} => Len(run) = Min(limit, N)
        /\ \A r1, r2 \in active : run[r1].cur = run[r2].cur => r1 = r2
        /\ \A r \in active : run[r].cur \in 1..N /\ ~Filled(run[r].cur)
        /\ pc = "fanout" =>
               \A i \in 1..N : (i < index <=> (Filled(i) \/ \E r \in active : run[r].cur = i))
        /\ \A i \in 1..N : Filled(i) => IdOf(variant, results[i]) = pros[i]
        /\ pc = "done" => (active = {} /\ \A i \in 1..N : Filled(i))

\* C32: for every limit >= 1 runWithConcurrency starts min(limit, n) runners, no index is
\* held by two runners or skipped, a slot once written is never written again and holds the
\* record of its own item, the pool resolves only when every slot is written and every
\* runner has returned, and once started it does resolve
C32_PoolCompletes ==
    /\ []PoolSound
    /\ [][\A i \in 1..N : Filled(i) => results'[i] = results[i]]_vars
    /\ (pc = "fanout") ~> (pc = "done")

\* two items under limit 1: one runner has processed both and the pool has resolved
C32_Witness ==
    /\ limit = 1
    /\ N = 2
    /\ pc = "done"
    /\ Len(run) = 1
    /\ index = 4
    /\ Filled(1) /\ Filled(2)

----------------------------------------------------------------------------
(* runWithConcurrency with a worker that may throw.  The workers checkAll passes *)
(* never throw, so the throw is an input of the pool here.                        *)

\* A runner whose worker threw: "results[current] = await worker(...)" rejects next(),
\* so its "await next()" is never reached
Dead(i) == [pc |-> "dead", cur |-> i, b |-> NoOut, h |-> NoOut, t |-> EmptyMap, q |-> "none"]

\* A throw that also stops the other runners
WorkerThrows_Cancels(r) ==
    /\ PoolLive
    /\ run[r].pc = "ret"
    /\ run' = [q \in 1..Len(run) |-> IF run[q].pc = "end" THEN run[q] ELSE Dead(run[q].cur)]
    /\ Throw("worker")
    /\ UNCHANGED <<variant, force, input, other, groupSent, fmsCred, tmsCred, FMS_TOKEN, pros, fmsToken,
                   fmsMap, proOf, tmsAuth, tmsMap, limit, index, results, sub, calls, fails>>

\* The worker of runner r throws: Promise.all rejects, checkAll throws to the handler
WorkerThrows(r) ==
    /\ PoolLive
    /\ run[r].pc = "ret"
    /\ run' = [run EXCEPT ![r] = Dead(run[r].cur)]
    /\ Throw("worker")
    /\ UNCHANGED <<variant, force, input, other, groupSent, fmsCred, tmsCred, FMS_TOKEN, pros, fmsToken,
                   fmsMap, proOf, tmsAuth, tmsMap, limit, index, results, sub, calls, fails>>

NextThrow == NextPool \/ \E r \in 1..Len(run) : WorkerThrows(r)

SpecThrow == InitPool /\ [][NextThrow]_vars /\ WF_vars(NextThrow)

\* The runners whose worker threw
DeadRunners == {r \in 1..Len(run) : run[r].pc = "dead"}

\* After a throw: checkAll has thrown, no runner is left running, and if a runner returned
\* normally then every index is written or is that of a worker that threw
PoolSettled ==
    /\ pc = "threw"
    /\ \A r \in 1..Len(run) : run[r].pc \in {"end", "dead"}
    /\ (\E r \in 1..Len(run) : run[r].pc = "end") =>
           \A i \in 1..N : Filled(i) \/ \E r \in DeadRunners : run[r].cur = i

\* C33: once a worker has thrown, checkAll has thrown and never returns a list; the runner
\* whose worker threw holds its index for ever and claims no other; a throw stops that
\* runner alone; the other runners go on until every index is claimed, and every index but
\* those of throwing workers is written
C33_ThrowRejectsOthersContinue ==
    /\ [](DeadRunners # {} => (pc = "threw" /\ thrownBy = "worker"))
    /\ [](pc = "done" => \A i \in 1..N : Filled(i))
    /\ [][\A r \in 1..Len(run) : run[r].pc = "dead" => run'[r] = run[r]]_vars
    /\ [][\A r \in 1..Len(run) : (run[r].pc # "dead" /\ run'[r].pc = "dead") =>
             (run[r].pc = "ret" /\ \A q \in 1..Len(run) : q # r => run'[q] = run[q])]_vars
    /\ (thrownBy = "worker") ~> PoolSettled

\* limit 2, two items: the first runner's worker threw, and the second runner has written
\* its record after the rejection and returned
C33_Witness ==
    /\ limit = 2
    /\ N = 2
    /\ pc = "threw"
    /\ thrownBy = "worker"
    /\ run[1].pc = "dead"
    /\ run[2].pc = "end"
    /\ ~Filled(1)
    /\ Filled(2)

\* C34: a login that fails (authFms throws, or returns no token) leaves FMS_TOKEN as it was
\* before the call, in either invocation
C34_FailedLoginKeepsCache ==
    [][/\ (pc = "login" /\ (pc' = "threw" \/ (pc' = "search" /\ ~Truthy(fmsToken')))) =>
              FMS_TOKEN' = FMS_TOKEN
       /\ (other.pc = "login" /\ (other'.pc = "idle" \/ ~Truthy(other'.token))) =>
              FMS_TOKEN' = FMS_TOKEN]_vars

\* C35: with a second invocation writing the cache at any moment, every search and detail
\* call of this invocation has carried the token its own authFms returned, and from the
\* return of authFms to the end of the invocation that token does not change
C35_OwnTokenOnEveryCall ==
    /\ [](calls.with \subseteq {fmsToken})
    /\ [][(pc \notin {"start", "login"} /\ pc' # "start") => fmsToken' = fmsToken]_vars

\* part_000: this invocation logged in and got tokA, the second invocation has since put
\* its own token in the cache, and a status call of this invocation has gone out with tokA
C35_Witness ==
    /\ variant = "puA"
    /\ pc = "fanout"
    /\ calls.login = 1
    /\ fmsToken \in Tokens
    /\ FMS_TOKEN = OtherToken
    /\ calls.head = 1
    /\ calls.with = {fmsToken}

\* Is there a row in the response whose identifier field, trimmed, is k
RowMatches(rows, k) == \E i \in 1..Len(rows) : ~rows[i].null /\ clean(rows[i].key) = k

\* C36: whatever the trace response, a trace side that comes out ok for an identifier was
\* taken from a row of that response whose identifier field, trimmed, is that identifier:
\* per identifier in check-status.js, through the map of the batched query elsewhere
C36_RowBelongsToIdentifier ==
    /\ variant = "status" =>
        \A r \in 1..Len(run) : run[r].pc = "trace" =>
            \A resp \in TraceResponses :
                Flag(TmsResOne(resp, pros[run[r].cur]), "ok") =>
                    RowMatches(resp.body.rows, pros[run[r].cur])
    /\ (variant # "status" /\ pc = "trace") =>
        \A resp \in TraceResponses :
            ~TraceThrows(variant, resp) =>
                \A k \in DOMAIN TraceMapOf(variant, resp) :
                    RowMatches(TraceRowsOf(variant, resp.body).rows, k)
    /\ variant \in {"puA", "puB"} =>
        \A i \in 1..N : (Filled(i) /\ Flag(results[i].tms, "ok")) =>
            (tmsMap.set /\ clean(pros[i]) \in DOMAIN tmsMap.map)

----------------------------------------------------------------------------
(* Responses with several rows for one identifier.  The rows of the search    *)
(* response and of the trace response are fixed at the start, so that what the *)
(* maps keep can be compared with them.                                        *)

DO_B == <<"D", "O", "0", "0", "0", "0", "0", "2">>

\* Rows for identifier PRO1, written with or without surrounding blanks, holding A or B
DupRows == {[key |-> k, val |-> x] : k \in {PRO1, PadPRO1}, x \in {"A", "B"}}

GivenLists == UNION {[1..n -> DupRows] : n \in 1..MaxRows}

OrderOf(x) == IF x = "A" THEN DO_A ELSE DO_B

AsSearchRow(r) == [null |-> FALSE, id |-> r.key, order |-> OrderOf(r.val), pro |-> PRO1]

AsTraceRow(r) == [null |-> FALSE, key |-> r.key, tms_order_id |-> r.val]

GivenSearch ==
    Http(TRUE, [kind |-> "top", items |-> [i \in 1..Len(input) |-> AsSearchRow(input[i])]])

GivenTrace ==
    Http(TRUE, [kind |-> "array", rows |-> [i \in 1..Len(input) |-> AsTraceRow(input[i])]])

GivenSearchDone == SearchArrives(Search(variant, GivenSearch))

GivenTraceDone == TraceArrives(tmsTrace(variant, GivenTrace))

GivenTraceOneDone(r) ==
    /\ run[r].pc = "trace"
    /\ TraceOneArrives(r, TraceOne(GivenTrace, pros[run[r].cur]))

InitRows ==
    /\ variant \in Variants
    /\ fmsCred = TRUE
    /\ tmsCred = TRUE
    /\ FMS_TOKEN = NoToken
    /\ force = FALSE
    /\ limit = CONCURRENCY
    /\ pros = <<PRO1>>
    /\ input \in GivenLists
    /\ pc = "start"
    /\ fmsToken = NoToken
    /\ fmsMap = EmptyMap
    /\ proOf = EmptyMap
    /\ tmsAuth = NoAuth
    /\ groupSent = NoGroup
    /\ tmsMap = NoMap
    /\ index = 1
    /\ run = <<>>
    /\ results = [i \in 1..Len(pros) |-> EmptySlot]
    /\ sub = [i \in 1..Len(pros) |-> [b |-> NoOut, h |-> NoOut, q |-> "none"]]
    /\ calls = NoCalls
    /\ thrownBy = "none"
    /\ fails = [fms |-> {}, tms |-> {}]
    /\ other = Idle

NextRows ==
    \/ CheckAllStart
    \/ FmsLoginDone
    \/ GivenSearchDone
    \/ TmsLoginDone
    \/ TmsGroupDone
    \/ GivenTraceDone
    \/ StartRunners
    \/ \E r \in 1..Len(run) : BasicDone(r)
    \/ \E r \in 1..Len(run) : HeadDone(r)
    \/ \E r \in 1..Len(run) : GivenTraceOneDone(r)
    \/ \E r \in 1..Len(run) : WorkerReturn(r)
    \/ Finish

SpecRows == InitRows /\ [][NextRows]_vars

\* What the last of the given rows holds
GivenLast == input[Len(input)].val

\* C37: every given row is an accepted row for PRO1.  The order map keeps the order of the
\* last row and nothing else, the trace map (or, in check-status.js, the trace result of
\* the identifier) keeps the order id of the last row, and one location call and one
\* status call are sent for the identifier
C37_LastRowWins ==
    /\ pc \in {"tmsLogin", "tmsGroup", "trace", "fan0", "fanout", "done"} =>
           fmsMap = [k \in {PRO1} |-> OrderOf(GivenLast)]
    /\ (variant # "status" /\ tmsMap.set) => tmsMap.map = [k \in {PRO1} |-> GivenLast]
    /\ \A i \in 1..N : (Filled(i) /\ variant \notin {"pro", "pu"} /\ Flag(results[i].tms, "ok")) =>
           results[i].tms.orderId = GivenLast
    /\ (pc = "done" /\ DetailCalls(variant)) => (calls.basic = 1 /\ calls.head = 1)

----------------------------------------------------------------------------
(* The handler: from the request to the call of checkAll *)

MAX_PROS == 150

MaxReq == 2

Blank == <<" ">>

\* What the request's identifier list may hold
RawIds == {PRO1, PadPRO1, PU1, Blank}

\* kind: the body has no list ("missing"), something that is not an array, or an array
Requests ==
    {[method |-> m, kind |-> k, pros |-> <<>>] : m \in {"POST", "GET"}, k \in {"missing", "notArray"}}
    \cup {[method |-> m, kind |-> "array", pros |-> l] :
            m \in {"POST", "GET"}, l \in UNION {[1..n -> RawIds] : n \in 0..MaxReq}}

\* pros.map(cleanPro).filter(Boolean)
RECURSIVE CleanFilter(_)
CleanFilter(l) ==
    IF l = <<>> THEN <<>>
    ELSE IF clean(Head(l)) = NoStr THEN CleanFilter(Tail(l))
    ELSE <<clean(Head(l))>> \o CleanFilter(Tail(l))

\* [...new Set(l)]: the first occurrence of each value, in order
RECURSIVE Uniq(_, _)
Uniq(l, acc) ==
    IF l = <<>> THEN acc
    ELSE IF \E i \in 1..Len(acc) : acc[i] = Head(l) THEN Uniq(Tail(l), acc)
    ELSE Uniq(Tail(l), Append(acc, Head(l)))

\* .slice(0, MAX_PROS)
Slice(l, n) == SubSeq(l, 1, Min(n, Len(l)))

\* The handler up to "await checkAll(trimmedPros)"
HandlerRun ==
    /\ pc = "handler"
    /\ IF input.method # "POST" \/ input.kind # "array" \/ Len(input.pros) = 0 THEN
           /\ pc' = "rejected"
           /\ UNCHANGED <<pros, results, sub>>
       ELSE
           LET trimmedPros == Slice(Uniq(CleanFilter(input.pros), <<>>), MAX_PROS)
           IN  /\ pros' = trimmedPros
               /\ results' = [i \in 1..Len(trimmedPros) |-> EmptySlot]
               /\ sub' = [i \in 1..Len(trimmedPros) |-> [b |-> NoOut, h |-> NoOut, q |-> "none"]]
               /\ pc' = "start"
    /\ UNCHANGED <<variant, force, input, other, groupSent, fmsCred, tmsCred, FMS_TOKEN, fmsToken,
                   fmsMap, proOf, tmsAuth, tmsMap, limit, index, run, calls, thrownBy, fails>>

InitHandler ==
    /\ variant \in Variants
    /\ fmsCred = TRUE
    /\ tmsCred = TRUE
    /\ FMS_TOKEN = NoToken
    /\ force = FALSE
    /\ limit = CONCURRENCY
    /\ input \in Requests
    /\ pros = <<>>
    /\ pc = "handler"
    /\ fmsToken = NoToken
    /\ fmsMap = EmptyMap
    /\ proOf = EmptyMap
    /\ tmsAuth = NoAuth
    /\ groupSent = NoGroup
    /\ tmsMap = NoMap
    /\ index = 1
    /\ run = <<>>
    /\ results = <<>>
    /\ sub = <<>>
    /\ calls = NoCalls
    /\ thrownBy = "none"
    /\ fails = [fms |-> {}, tms |-> {}]
    /\ other = Idle

NextHandler == HandlerRun \/ Next

SpecHandler == InitHandler /\ [][NextHandler]_vars

\* The position in the request's list of the first item that cleans to id
FirstAt(id) == CHOOSE i \in 1..Len(input.pros) :
                   /\ clean(input.pros[i]) = id
                   /\ \A j \in 1..(i - 1) : clean(input.pros[j]) # id

\* C38: checkAll is entered only with a non-empty list of at most 150 distinct, trimmed,
\* non-empty strings, which are the identifiers of the request in the order of their first
\* occurrence; a request that is not a POST, or has no list, or no array, or no usable
\* identifier in it, is answered with an error and no call goes out
C38_HandlerGuardsCheckAll ==
    LET usable == {clean(input.pros[i]) : i \in 1..Len(input.pros)} \ {NoStr}
        bad == input.method # "POST" \/ input.kind # "array" \/ usable = {}
    IN  /\ pc \notin {"handler", "rejected"} =>
            /\ pros # <<>>
            /\ Len(pros) <= MAX_PROS
            /\ \A i \in 1..Len(pros) : pros[i] # NoStr /\ clean(pros[i]) = pros[i]
            /\ \A i, j \in 1..Len(pros) : pros[i] = pros[j] => i = j
            /\ {pros[i] : i \in 1..Len(pros)} = usable
            /\ \A i, j \in 1..Len(pros) : i < j => FirstAt(pros[i]) < FirstAt(pros[j])
        /\ (bad /\ pc # "handler") => (pc = "rejected" /\ calls = NoCalls)

====
